---- MODULE Spec2Model ----
(***************************************************************************)
(* State-machine model of src/data/amc_tokenise_v2.py: the rank-value      *)
(* tokenizer (rank_genes, tokenize_cell) and the TranscriptomeTokenizer    *)
(* pipeline __init__ -> tokenize_data -> tokenize_files ->                 *)
(* tokenize_loom | tokenize_anndata -> create_dataset -> save_to_disk.     *)
(*                                                                         *)
(* Cell and gene positions are 1-based here (0-based in the Python code).  *)
(***************************************************************************)
EXTENDS Integers, Sequences, FiniteSets, TLC

\* ------------------------------------------------------------------ bounds
MaxCells == 3       \* most cells of a streamed matrix
MaxCount == 2       \* largest raw count of a one-cell matrix
MaxChunk == 2       \* chunk_size / scan batch size range over 1..MaxChunk
MaxRows  == 2       \* most rows handed to create_dataset directly
Slack    == 1       \* their lengths reach MaxLen-Slack..MaxLen+Slack

\* --------------------------------------------------------- program constants
target_sum == 10000 \* default of tokenize_loom / tokenize_anndata
MaxLen     == 2048  \* the literal crop bound of format_cell_features

\* ------------------------------------------------------------ input domains
Genes == {"g1", "g2", "g3"}
EnsemblIds == <<"g1", "g2", "g3">>      \* the matrix's gene axis
NGenes == Len(EnsemblIds)

\* contents of the two pickled tables over the full vocabulary
MedianTable == [g \in Genes |-> CASE g = "g1" -> 2 [] g = "g2" -> 1 [] OTHER -> 4]
TokenTable  == [g \in Genes |-> CASE g = "g1" -> 5 [] g = "g2" -> 3 [] OTHER -> 4]

Restrict(f, S) == [x \in S |-> f[x]]

NCountValues == {-1, 0, 1, 2}            \* per-cell 'n_counts' attribute values
StreamRows == {<<1, 2, 0>>, <<0, 0, 1>>, <<0, 0, 0>>}
AttrKey == "cell_id"                     \* the one configured custom attribute
AttrOut == "cell"                        \* its output column name

Min(a, b) == IF a <= b THEN a ELSE b

\* ------------------------------------------------- float values (numpy float64)
\* A value is a finite rational n/d (d > 0), +inf, -inf or nan.
Fin(n, d) == [k |-> "fin", n |-> n, d |-> d]
PInf == [k |-> "pinf", n |-> 0, d |-> 1]
NInf == [k |-> "ninf", n |-> 0, d |-> 1]
NaN  == [k |-> "nan", n |-> 0, d |-> 1]

Flip(v) ==
    CASE v.k = "fin"  -> Fin(0 - v.n, v.d)
      [] v.k = "pinf" -> NInf
      [] v.k = "ninf" -> PInf
      [] OTHER        -> NaN

\* v / m for an integer m: numpy true_divide, which warns and never raises
TrueDivide(v, m) ==
    CASE v.k = "nan" -> NaN
      [] v.k = "fin" /\ m = 0 ->
            IF v.n = 0 THEN NaN ELSE IF v.n > 0 THEN PInf ELSE NInf
      [] v.k = "fin" /\ m > 0 -> Fin(v.n, v.d * m)
      [] v.k = "fin" /\ m < 0 -> Fin(0 - v.n, v.d * (0 - m))
      [] OTHER -> IF m >= 0 THEN v ELSE Flip(v)

\* v * m for an integer m
Multiply(v, m) ==
    CASE v.k = "nan" -> NaN
      [] v.k = "fin" -> Fin(v.n * m, v.d)
      [] OTHER -> IF m = 0 THEN NaN ELSE IF m > 0 THEN v ELSE Flip(v)

IsNonzero(v) == v.k # "fin" \/ v.n # 0

\* a < b on non-nan values
LessNum(a, b) ==
    CASE a.k = "ninf" -> b.k # "ninf"
      [] a.k = "pinf" -> FALSE
      [] OTHER -> b.k = "pinf" \/ (b.k = "fin" /\ a.n * b.d < b.n * a.d)

\* the order numpy sorts floats by: nan after everything else
Less(a, b) ==
    IF b.k = "nan" THEN a.k # "nan"
    ELSE IF a.k = "nan" THEN FALSE
    ELSE LessNum(a, b)

\* a >= b as Python compares floats (False whenever a nan is involved)
Geq(a, b) == a.k # "nan" /\ b.k # "nan" /\ ~LessNum(a, b)

\* ------------------------------------------------------------ numpy helpers
RECURSIVE WhereFrom(_, _)
WhereFrom(flags, j) ==
    IF j > Len(flags) THEN <<>>
    ELSE IF flags[j] THEN <<j>> \o WhereFrom(flags, j + 1)
    ELSE WhereFrom(flags, j + 1)

\* np.where(flags)[0]: the positions holding True, ascending
Where(flags) == WhereFrom(flags, 1)

\* np.nonzero(vec)[0]
nonzero(vec) == Where([j \in 1..Len(vec) |-> IsNonzero(vec[j])])

\* fancy indexing arr[idx]
Take(arr, idx) == [k \in 1..Len(idx) |-> arr[idx[k]]]

RECURSIVE Insert(_, _, _)
Insert(sorted, j, keys) ==
    IF sorted = <<>> THEN <<j>>
    ELSE IF Less(keys[j], keys[Head(sorted)]) THEN <<j>> \o sorted
    ELSE <<Head(sorted)>> \o Insert(Tail(sorted), j, keys)

RECURSIVE ArgsortFrom(_, _, _)
ArgsortFrom(keys, j, sorted) ==
    IF j > Len(keys) THEN sorted
    ELSE ArgsortFrom(keys, j + 1, Insert(sorted, j, keys))

\* np.argsort(keys): ascending; numpy sorts arrays this short by insertion,
\* so equal keys keep their input order
argsort(keys) == ArgsortFrom(keys, 1, <<>>)

Negate(vec) == [j \in 1..Len(vec) |-> Flip(vec[j])]

\* mutation of rank_genes: the sign is lost and the sort ascends
rank_genes_ascending(gene_vector, gene_tokens) ==
    Take(gene_tokens, argsort(gene_vector))

rank_genes(gene_vector, gene_tokens) ==
    LET sorted_indices == argsort(Negate(gene_vector))
    IN  Take(gene_tokens, sorted_indices)

tokenize_cell(gene_vector, gene_tokens) ==
    LET nonzero_mask == nonzero(gene_vector)
    IN  rank_genes(Take(gene_vector, nonzero_mask), Take(gene_tokens, nonzero_mask))

\* ------------------------------------------------------------------- state
VARIABLES
    gene_median_file,       \* [readable, dict]: the pickled gene -> median table
    token_dictionary_file,  \* [readable, dict]: the pickled gene -> token table
    custom_attr_name_dict,  \* [none, dict]: None, or attribute -> column name
    file_format,            \* "loom" | "h5ad"
    data,                   \* the expression matrix file
    chunk_size,             \* chunk_size of tokenize_anndata / batch size of scan
    pc,                     \* position of the run
    err,                    \* the exception that ended the run, or "none"
    self,                   \* the tokenizer's attributes set by __init__
    tf,                     \* locals of tokenize_files
    fl,                     \* locals of tokenize_loom / tokenize_anndata
    emitted,                \* history: the cells tokenized so far, in order
    stdout_fallback,        \* number of "no column attribute 'filter_pass'" lines
    dataset,                \* the Dataset create_dataset returned
    disk                    \* the tables save_to_disk wrote, in order

vars == <<gene_median_file, token_dictionary_file, custom_attr_name_dict,
          file_format, data, chunk_size, pc, err, self, tf, fl, emitted,
          stdout_fallback, dataset, disk>>

inputs == <<gene_median_file, token_dictionary_file, custom_attr_name_dict,
            file_format, data, chunk_size>>

NCells == Len(data.X)

\* values of a metadata variable: not yet assigned, None, or a dict of lists
NoCols == [k \in {} |-> <<>>]
Unbound == [st |-> "unbound", cols |-> NoCols]
NoneMeta == [st |-> "none", cols |-> NoCols]
DictMeta(cols) == [st |-> "dict", cols |-> cols]

NoSelf == [gene_median_dict |-> NoCols, gene_token_dict |-> NoCols,
           genelist_dict |-> NoCols]
NoTf == [tokenized_cells |-> <<>>, cell_metadata |-> Unbound]
NoFl == [coding_miRNA_loc |-> <<>>, norm_factor_vector |-> <<>>,
         coding_miRNA_tokens |-> <<>>, filter_pass_loc |-> <<>>,
         tokenized_cells |-> <<>>, file_cell_metadata |-> Unbound, i |-> 0]
NoDataset == [built |-> FALSE, input_ids |-> <<>>, length |-> <<>>, cols |-> NoCols]

NoAttrs == [none |-> TRUE, dict |-> NoCols]
OneAttr == [none |-> FALSE, dict |-> [k \in {AttrKey} |-> AttrOut]]

Readable(d) == [readable |-> TRUE, dict |-> d]
Unreadable == [readable |-> FALSE, dict |-> NoCols]

Start ==
    /\ pc = "construct"
    /\ err = "none"
    /\ self = NoSelf
    /\ tf = NoTf
    /\ fl = NoFl
    /\ emitted = <<>>
    /\ stdout_fallback = 0
    /\ dataset = NoDataset
    /\ disk = <<>>

\* One-cell matrices: every count vector, total count and pair of tables.
InitOneCell ==
    /\ \E S \in SUBSET Genes :
          gene_median_file = Readable(Restrict(MedianTable, S))
    /\ \E g \in Genes \cup {"none"} :
          token_dictionary_file = Readable(Restrict(TokenTable, Genes \ {g}))
    /\ custom_attr_name_dict = NoAttrs
    /\ file_format \in {"loom", "h5ad"}
    /\ \E row \in [1..NGenes -> 0..MaxCount], n \in NCountValues :
          data = [ensembl_id |-> EnsemblIds, X |-> <<row>>, n_counts |-> <<n>>,
                  has_filter_pass |-> FALSE, filter_pass |-> <<>>,
                  cell_id |-> <<1>>]
    /\ chunk_size = 1
    /\ Start

\* Streamed matrices of up to MaxCells cells, with and without the
\* 'filter_pass' attribute and the custom attribute, and unreadable tables.
InitStream ==
    /\ \E m \in {Readable(MedianTable), Unreadable},
          t \in {Readable(TokenTable), Unreadable} :
          /\ m.readable \/ t.readable
          /\ gene_median_file = m
          /\ token_dictionary_file = t
    /\ custom_attr_name_dict \in {NoAttrs, OneAttr}
    /\ file_format \in {"loom", "h5ad"}
    /\ \E n \in 0..MaxCells :
       \E X \in [1..n -> StreamRows], hf \in BOOLEAN :
       \E fp \in IF hf THEN [1..n -> {0, 1}] ELSE {<<>>} :
          data = [ensembl_id |-> EnsemblIds, X |-> X,
                  n_counts |-> [c \in 1..n |-> 2],
                  has_filter_pass |-> hf, filter_pass |-> fp,
                  cell_id |-> [c \in 1..n |-> c]]
    /\ chunk_size \in 1..MaxChunk
    /\ Start

Init == InitOneCell \/ InitStream

\* an exception propagates to the caller of tokenize_data: the run ends
Raise(e) ==
    /\ pc' = "raised"
    /\ err' = e
    /\ UNCHANGED <<inputs, self, tf, fl, emitted, stdout_fallback, dataset, disk>>

\* ---------------------------------------------------------------- __init__
Construct ==
    /\ pc = "construct"
    /\ IF ~gene_median_file.readable \/ ~token_dictionary_file.readable
       THEN Raise("OSError")
       ELSE /\ self' = [gene_median_dict |-> gene_median_file.dict,
                        gene_token_dict |-> token_dictionary_file.dict,
                        genelist_dict |->
                            [g \in DOMAIN gene_median_file.dict |-> TRUE]]
            /\ pc' = "tokenize_files"
            /\ UNCHANGED <<inputs, err, tf, fl, emitted, stdout_fallback,
                           dataset, disk>>

\* ---------------------------------------------- tokenize_files, up to the call
TokenizeFilesBegin ==
    /\ pc = "tokenize_files"
    /\ tf' = [tokenized_cells |-> <<>>,
              cell_metadata |->
                  IF ~custom_attr_name_dict.none
                  THEN DictMeta([o \in {custom_attr_name_dict.dict[k] :
                                          k \in DOMAIN custom_attr_name_dict.dict}
                                 |-> <<>>])
                  ELSE Unbound]
    /\ pc' = IF file_format = "loom" THEN "loom_setup" ELSE "h5ad_setup"
    /\ UNCHANGED <<inputs, err, self, fl, emitted, stdout_fallback, dataset, disk>>

\* ------------------------------------- gene selection shared by both formats
\* self.genelist_dict.get(g, False)
genelist_get(g) ==
    IF g \in DOMAIN self.genelist_dict THEN self.genelist_dict[g] ELSE FALSE

\* mutation of coding_miRNA_loc: .get(g, True) keeps every gene of the matrix
coding_miRNA_loc_all == [j \in 1..Len(data.ensembl_id) |-> j]

coding_miRNA_loc ==
    Where([j \in 1..Len(data.ensembl_id) |-> genelist_get(data.ensembl_id[j])])

coding_miRNA_ids == Take(data.ensembl_id, coding_miRNA_loc)

\* self.gene_median_dict[i] raises KeyError for a selected gene without a factor
MedianKeyError ==
    \E k \in 1..Len(coding_miRNA_ids) :
        coding_miRNA_ids[k] \notin DOMAIN self.gene_median_dict

norm_factor_vector ==
    [k \in 1..Len(coding_miRNA_ids) |-> self.gene_median_dict[coding_miRNA_ids[k]]]

\* self.gene_token_dict[i] raises KeyError for a selected gene without a token
TokenKeyError ==
    \E k \in 1..Len(coding_miRNA_ids) :
        coding_miRNA_ids[k] \notin DOMAIN self.gene_token_dict

coding_miRNA_tokens ==
    [k \in 1..Len(coding_miRNA_ids) |-> self.gene_token_dict[coding_miRNA_ids[k]]]

\* ------------------------------------------------------ cell inclusion filter
\* mutation of filter_pass_loc: the flags are ignored
filter_pass_loc_ignored == [c \in 1..NCells |-> c]

filter_pass_loc ==
    IF data.has_filter_pass
    THEN Where([c \in 1..NCells |-> data.filter_pass[c] = 1])
    ELSE [c \in 1..NCells |-> c]

fallback_prints == IF data.has_filter_pass THEN 0 ELSE 1

FileLocals ==
    [coding_miRNA_loc |-> coding_miRNA_loc,
     norm_factor_vector |-> norm_factor_vector,
     coding_miRNA_tokens |-> coding_miRNA_tokens,
     filter_pass_loc |-> filter_pass_loc,
     tokenized_cells |-> <<>>,
     file_cell_metadata |->
         IF ~custom_attr_name_dict.none
         THEN DictMeta([k \in DOMAIN custom_attr_name_dict.dict |-> <<>>])
         ELSE Unbound,
     i |-> 0]

\* X[c, loc] / n_counts[c] * target_sum / norm_factor_vector, for one cell
Normalize(c) ==
    [k \in 1..Len(fl.coding_miRNA_loc) |->
        TrueDivide(
            Multiply(
                TrueDivide(Fin(data.X[c][fl.coding_miRNA_loc[k]], 1),
                           data.n_counts[c]),
                target_sum),
            fl.norm_factor_vector[k])]

\* the custom attribute k of the cells idx, as a list
AttrList(k, idx) == [j \in 1..Len(idx) |-> data.cell_id[idx[j]]]

\* file_cell_metadata after the chunk idx: extended, or set to None
AddCustomAttributes(file_cell_metadata, idx) ==
    IF ~custom_attr_name_dict.none
    THEN DictMeta([k \in DOMAIN file_cell_metadata.cols |->
                      file_cell_metadata.cols[k] \o AttrList(k, idx)])
    ELSE NoneMeta

\* ---------------------------------------------------------- tokenize_loom
TokenizeLoomSetup ==
    /\ pc = "loom_setup"
    /\ IF MedianKeyError \/ TokenKeyError
       THEN Raise("KeyError")
       ELSE /\ fl' = FileLocals
            /\ stdout_fallback' = stdout_fallback + fallback_prints
            /\ pc' = "loom_scan"
            /\ UNCHANGED <<inputs, err, self, tf, emitted, dataset, disk>>

\* columns of one batch of data.scan starting after column ix
cols_per_chunk(ix) == Min(NCells - ix, chunk_size)

Selection(ix) ==
    SelectSeq(fl.filter_pass_loc, LAMBDA c : ix < c /\ c <= ix + cols_per_chunk(ix))

\* data.scan skips the batches that hold none of the items
RECURSIVE NextBatch(_)
NextBatch(ix) ==
    IF ix >= NCells THEN NCells
    ELSE IF Selection(ix) # <<>> THEN ix
    ELSE NextBatch(ix + cols_per_chunk(ix))

LoomChunkTokens(idx) ==
    [j \in 1..Len(idx) |-> tokenize_cell(Normalize(idx[j]), fl.coding_miRNA_tokens)]

\* one iteration of the loop over data.scan(items=filter_pass_loc, axis=1)
TokenizeLoomScan ==
    /\ pc = "loom_scan"
    /\ NextBatch(fl.i) < NCells
    /\ \E read_ok \in BOOLEAN :
          IF ~read_ok
          THEN Raise("OSError")
          ELSE LET ix == NextBatch(fl.i)
                   idx == Selection(ix)
               IN  /\ fl' = [fl EXCEPT
                               !.tokenized_cells = @ \o LoomChunkTokens(idx),
                               !.file_cell_metadata = AddCustomAttributes(@, idx),
                               !.i = ix + cols_per_chunk(ix)]
                   /\ emitted' = emitted \o idx
                   /\ UNCHANGED <<inputs, pc, err, self, tf, stdout_fallback,
                                  dataset, disk>>

\* return tokenized_cells, file_cell_metadata
FileReturn ==
    IF fl.file_cell_metadata.st = "unbound"
    THEN Raise("UnboundLocalError")
    ELSE /\ pc' = "files_merge"
         /\ UNCHANGED <<inputs, err, self, tf, fl, emitted, stdout_fallback,
                        dataset, disk>>

TokenizeLoomReturn ==
    /\ pc = "loom_scan"
    /\ NextBatch(fl.i) >= NCells
    /\ FileReturn

\* -------------------------------------------------------- tokenize_anndata
TokenizeAnndataSetup ==
    /\ pc = "h5ad_setup"
    /\ IF MedianKeyError \/ TokenKeyError
       THEN Raise("KeyError")
       ELSE /\ fl' = FileLocals
            /\ stdout_fallback' = stdout_fallback + fallback_prints
            /\ pc' = "h5ad_loop"
            /\ UNCHANGED <<inputs, err, self, tf, emitted, dataset, disk>>

\* mutation of ChunkIdx: the slice stops one cell early
ChunkIdxShort(loc, i, size) == SubSeq(loc, i + 1, Min(i + size, Len(loc)) - 1)

\* filter_pass_loc[i:i+chunk_size]
ChunkIdx(loc, i, size) == SubSeq(loc, i + 1, Min(i + size, Len(loc)))

\* sp.csr_matrix(X_norm)[r].indices / .data: the stored entries of a row
CsrIndices(row) == nonzero(row)
CsrData(row) == Take(row, CsrIndices(row))

AnndataChunkTokens(idx) ==
    [j \in 1..Len(idx) |->
        LET row == Normalize(idx[j])
        IN  rank_genes(CsrData(row), Take(fl.coding_miRNA_tokens, CsrIndices(row)))]

\* one iteration of: for i in range(0, len(filter_pass_loc), chunk_size)
TokenizeAnndataChunk ==
    /\ pc = "h5ad_loop"
    /\ fl.i < Len(fl.filter_pass_loc)
    /\ \E read_ok \in BOOLEAN :
          IF ~read_ok
          THEN Raise("OSError")
          ELSE LET idx == ChunkIdx(fl.filter_pass_loc, fl.i, chunk_size)
               IN  /\ fl' = [fl EXCEPT
                               !.tokenized_cells = @ \o AnndataChunkTokens(idx),
                               !.file_cell_metadata = AddCustomAttributes(@, idx),
                               !.i = @ + chunk_size]
                   /\ emitted' = emitted \o idx
                   /\ UNCHANGED <<inputs, pc, err, self, tf, stdout_fallback,
                                  dataset, disk>>

TokenizeAnndataReturn ==
    /\ pc = "h5ad_loop"
    /\ fl.i >= Len(fl.filter_pass_loc)
    /\ FileReturn

\* ------------------------------------------ tokenize_files, after the call
\* the list tokenize_files returns: file_tokenized_cells is never added to it
MergeTokenizedCells(tokenized_cells, file_tokenized_cells) == tokenized_cells

TokenizeFilesEnd ==
    /\ pc = "files_merge"
    /\ tf' = [tokenized_cells |->
                  MergeTokenizedCells(tf.tokenized_cells, fl.tokenized_cells),
              cell_metadata |->
                  IF ~custom_attr_name_dict.none
                  THEN DictMeta(
                         [o \in DOMAIN tf.cell_metadata.cols |->
                            tf.cell_metadata.cols[o] \o
                            fl.file_cell_metadata.cols[
                               CHOOSE k \in DOMAIN custom_attr_name_dict.dict :
                                  custom_attr_name_dict.dict[k] = o]])
                  ELSE NoneMeta]
    /\ pc' = "create_dataset"
    /\ UNCHANGED <<inputs, err, self, fl, emitted, stdout_fallback, dataset, disk>>

\* ---------------------------------------------------------- create_dataset
\* mutation of format_cell_features: the crop keeps one token too few
format_cell_features_short(input_ids) ==
    LET cropped == SubSeq(input_ids, 1, Min(Len(input_ids), MaxLen - 1))
    IN  [input_ids |-> cropped, length |-> Len(cropped)]

\* example['input_ids'][0:2048] and its len
format_cell_features(input_ids) ==
    LET cropped == SubSeq(input_ids, 1, Min(Len(input_ids), MaxLen))
    IN  [input_ids |-> cropped, length |-> Len(cropped)]

\* dataset_dict = {"input_ids": tokenized_cells}, updated with cell_metadata
dataset_dict ==
    [input_ids |-> tf.tokenized_cells,
     cols |-> IF ~custom_attr_name_dict.none THEN tf.cell_metadata.cols ELSE NoCols]

\* Dataset.from_dict refuses columns of different lengths
Ragged(dd) == \E o \in DOMAIN dd.cols : Len(dd.cols[o]) # Len(dd.input_ids)

CreateDataset ==
    /\ pc = "create_dataset"
    /\ IF Ragged(dataset_dict)
       THEN Raise("ArrowInvalid")
       ELSE /\ dataset' =
                 [built |-> TRUE,
                  input_ids |-> [r \in 1..Len(dataset_dict.input_ids) |->
                      format_cell_features(dataset_dict.input_ids[r]).input_ids],
                  length |-> [r \in 1..Len(dataset_dict.input_ids) |->
                      format_cell_features(dataset_dict.input_ids[r]).length],
                  cols |-> dataset_dict.cols]
            /\ pc' = "save"
            /\ UNCHANGED <<inputs, err, self, tf, fl, emitted, stdout_fallback,
                           disk>>

\* ------------------------------------------- tokenize_data: save_to_disk
\* mutation of SaveGuard: the table is written whatever happened before
SaveGuardAlways == pc \in {"save", "raised"} /\ disk = <<>>

SaveGuard == pc = "save"

SaveToDisk ==
    /\ SaveGuard
    /\ disk' = Append(disk, dataset)
    /\ pc' = "done"
    /\ UNCHANGED <<inputs, err, self, tf, fl, emitted, stdout_fallback, dataset>>

Next ==
    \/ Construct
    \/ TokenizeFilesBegin
    \/ TokenizeLoomSetup
    \/ TokenizeLoomScan
    \/ TokenizeLoomReturn
    \/ TokenizeAnndataSetup
    \/ TokenizeAnndataChunk
    \/ TokenizeAnndataReturn
    \/ TokenizeFilesEnd
    \/ CreateDataset
    \/ SaveToDisk

Spec == Init /\ [][Next]_vars

\* ------------------------------------------- create_dataset called directly
\* a ranked token sequence of the given length: distinct tokens first+1, ...
LongRow(len, first) == [p \in 1..len |-> first + p]

RowLens == {0, 1} \cup ((MaxLen - Slack)..(MaxLen + Slack))

\* create_dataset(tokenized_cells, cell_metadata) on sequences shorter than,
\* as long as and longer than the crop bound, with aligned metadata
InitCrop ==
    /\ gene_median_file = Readable(MedianTable)
    /\ token_dictionary_file = Readable(TokenTable)
    /\ custom_attr_name_dict \in {NoAttrs, OneAttr}
    /\ file_format = "loom"
    /\ data = [ensembl_id |-> EnsemblIds, X |-> <<>>, n_counts |-> <<>>,
               has_filter_pass |-> FALSE, filter_pass |-> <<>>, cell_id |-> <<>>]
    /\ chunk_size = 1
    /\ pc = "create_dataset"
    /\ err = "none"
    /\ self = [gene_median_dict |-> MedianTable, gene_token_dict |-> TokenTable,
               genelist_dict |-> [g \in Genes |-> TRUE]]
    /\ \E n \in 0..MaxRows :
       \E lens \in [1..n -> RowLens], firsts \in [1..n -> {0, 1}] :
          tf = [tokenized_cells |-> [r \in 1..n |-> LongRow(lens[r], firsts[r])],
                cell_metadata |->
                    IF custom_attr_name_dict.none THEN NoneMeta
                    ELSE DictMeta([o \in {AttrOut} |-> [r \in 1..n |-> r]])]
    /\ fl = NoFl
    /\ emitted = <<>>
    /\ stdout_fallback = 0
    /\ dataset = NoDataset
    /\ disk = <<>>

NextCrop == CreateDataset

SpecCrop == InitCrop /\ [][NextCrop]_vars

\* ===================================================================== claims
\* the included cells as the inputs define them: the cells flagged 1, or all
IncludedCells ==
    IF data.has_filter_pass
    THEN SelectSeq([c \in 1..NCells |-> c], LAMBDA c : data.filter_pass[c] = 1)
    ELSE [c \in 1..NCells |-> c]

\* the file function has returned to tokenize_files
Returned == pc \in {"files_merge", "create_dataset", "save", "done"}

\* the gene selection and the cell filter of the file function are done
SetupDone == pc \in {"loom_scan", "h5ad_loop"} \/ Returned

IsPrefix(s, t) == Len(s) <= Len(t) /\ \A j \in 1..Len(s) : s[j] = t[j]

Range(s) == {s[j] : j \in 1..Len(s)}

\* C1: the table handed to save_to_disk has one row per included cell, in
\* matrix row order, and row i holds the cropped token sequence that the
\* format-specific tokenizer computed for the i-th included cell.
C1_OneRowPerIncludedCell ==
    pc = "done" =>
        /\ Len(disk[1].input_ids) = Len(IncludedCells)
        /\ \A r \in 1..Len(disk[1].input_ids) :
              disk[1].input_ids[r] =
                  format_cell_features(fl.tokenized_cells[r]).input_ids

\* a vector of finite, non-negative values: what normalization yields for
\* non-negative counts and a positive total count
IsNormalized(v) == \A k \in 1..Len(v) : v[k].k = "fin" /\ v[k].n >= 0

Positive(x) == x.k = "pinf" \/ (x.k = "fin" /\ x.n > 0)

\* the normalized value behind token t (token ids are unique per gene)
ValueOf(v, t) ==
    v[CHOOSE k \in 1..Len(v) : fl.coding_miRNA_tokens[k] = t]

\* C2: the token sequence of a cell holds exactly the tokens of the nonzero
\* entries of its normalized vector, each once, so its length is the number of
\* strictly positive entries; adjacent tokens have non-increasing values; an
\* all-zero vector yields the empty sequence.
C2_RankedNonzeroTokens ==
    \A j \in 1..Len(emitted) :
        LET v == Normalize(emitted[j])
            toks == fl.tokenized_cells[j]
        IN  IsNormalized(v) =>
              /\ Range(toks) = {fl.coding_miRNA_tokens[k] :
                                  k \in {x \in 1..Len(v) : IsNonzero(v[x])}}
              /\ Len(toks) = Cardinality(Range(toks))
              /\ Len(toks) = Cardinality({k \in 1..Len(v) : Positive(v[k])})
              /\ \A p \in 1..(Len(toks) - 1) :
                    Geq(ValueOf(v, toks[p]), ValueOf(v, toks[p + 1]))
              /\ ((\A k \in 1..Len(v) : ~IsNonzero(v[k])) => toks = <<>>)

\* a loom cell with one unexpressed gene whose two tokens come out in the
\* reverse of matrix order (g2 before g1)
C2_Witness ==
    /\ file_format = "loom"
    /\ Len(emitted) = 1
    /\ IsNormalized(Normalize(emitted[1]))
    /\ fl.tokenized_cells[1] = <<3, 5>>
    /\ data.X[1][3] = 0

\* C3: a cell whose total count is zero or negative is never normalized and
\* tokenized: the run is aborted or the cell is skipped.
C3_NoNonPositiveTotal ==
    \A j \in 1..Len(emitted) : data.n_counts[emitted[j]] > 0

\* what tokenize_anndata computes when all included cells form one chunk
OneChunkTokens == AnndataChunkTokens(fl.filter_pass_loc)
OneChunkMetadata ==
    IF fl.filter_pass_loc = <<>> THEN FileLocals.file_cell_metadata
    ELSE AddCustomAttributes(FileLocals.file_cell_metadata, fl.filter_pass_loc)

\* C4: whatever chunk_size is, tokenize_anndata returns the token sequences
\* and metadata lists of the one-chunk run, in the same order, and it fails
\* to return only where the one-chunk run fails too.
C4_ChunkingIndependent ==
    file_format = "h5ad" =>
        /\ pc = "files_merge" =>
              /\ fl.tokenized_cells = OneChunkTokens
              /\ fl.file_cell_metadata = OneChunkMetadata
        /\ err = "UnboundLocalError" => OneChunkMetadata.st = "unbound"

\* three included cells read as a full chunk and a shorter last chunk
C4_Witness ==
    /\ file_format = "h5ad"
    /\ pc = "files_merge"
    /\ chunk_size = 2
    /\ Len(fl.filter_pass_loc) = 3
    /\ ~custom_attr_name_dict.none
    /\ fl.tokenized_cells[1] # fl.tokenized_cells[3]

\* C5: with 'filter_pass' present exactly the cells flagged 1 are tokenized,
\* in order; without it all cells are, the lookup of the missing attribute is
\* no error, and the fallback line is printed once per matrix.
C5_InclusionFilter ==
    /\ stdout_fallback <= 1
    /\ err \notin {"AttributeError"}
    /\ (pc = "raised" /\ err = "KeyError") => MedianKeyError \/ TokenKeyError
    /\ SetupDone =>
          /\ fl.filter_pass_loc = IncludedCells
          /\ stdout_fallback = IF data.has_filter_pass THEN 0 ELSE 1
          /\ IsPrefix(emitted, IncludedCells)
          /\ Len(fl.tokenized_cells) = Len(emitted)
    /\ (Returned \/ err = "UnboundLocalError") => emitted = IncludedCells
    /\ (~data.has_filter_pass /\ Returned) => Len(fl.tokenized_cells) = NCells

\* a matrix with passing and failing cells, after the file function returned
C5_Witness ==
    /\ pc = "files_merge"
    /\ data.has_filter_pass
    /\ NCells = 3
    /\ data.filter_pass = <<0, 1, 1>>
    /\ emitted = <<2, 3>>

\* C6: create_dataset keeps one row per token sequence (empty ones included);
\* each row's input_ids is the first min(len, 2048) tokens in unchanged order
\* and length is the number of tokens of the cropped input_ids.
C6_CropKeepsRows ==
    /\ pc # "raised"
    /\ pc = "save" =>
          /\ dataset.built
          /\ Len(dataset.input_ids) = Len(tf.tokenized_cells)
          /\ Len(dataset.length) = Len(tf.tokenized_cells)
          /\ \A r \in 1..Len(tf.tokenized_cells) :
                /\ Len(dataset.input_ids[r]) =
                       Min(Len(tf.tokenized_cells[r]), MaxLen)
                /\ \A p \in 1..Len(dataset.input_ids[r]) :
                       dataset.input_ids[r][p] = tf.tokenized_cells[r][p]
                /\ dataset.length[r] = Len(dataset.input_ids[r])

\* a table built from an over-long sequence and an empty one
C6_Witness ==
    /\ pc = "save"
    /\ Len(tf.tokenized_cells) = 2
    /\ Len(tf.tokenized_cells[1]) > MaxLen
    /\ tf.tokenized_cells[2] = <<>>
    /\ dataset.length = <<MaxLen, 0>>

\* C7: with custom attributes configured, every metadata column of the table
\* tokenize_data builds has as many values as there are token sequences, and
\* its i-th value is the attribute of the cell whose sequence is row i.
C7_MetadataAligned ==
    (pc = "create_dataset" /\ ~custom_attr_name_dict.none) =>
        \A o \in DOMAIN dataset_dict.cols :
            /\ Len(dataset_dict.cols[o]) = Len(dataset_dict.input_ids)
            /\ \A r \in 1..Len(dataset_dict.cols[o]) :
                  dataset_dict.cols[o][r] = data.cell_id[IncludedCells[r]]

\* the genes of the matrix that have a normalization factor, in matrix order
EligiblePositions ==
    SelectSeq([j \in 1..Len(data.ensembl_id) |-> j],
              LAMBDA j : data.ensembl_id[j] \in DOMAIN gene_median_file.dict)

\* C8: a gene of the matrix without a normalization factor is excluded without
\* an error and without a default factor or token: the selected genes are the
\* genes with a factor, in matrix order, each with its own factor and token,
\* and no token of an excluded gene is in any cell's sequence.
C8_MissingGeneExcluded ==
    /\ (pc = "raised" /\ err = "KeyError") =>
          \E j \in 1..Len(data.ensembl_id) :
              /\ data.ensembl_id[j] \in DOMAIN gene_median_file.dict
              /\ data.ensembl_id[j] \notin DOMAIN token_dictionary_file.dict
    /\ SetupDone =>
          /\ fl.coding_miRNA_loc = EligiblePositions
          /\ Len(fl.norm_factor_vector) = Len(EligiblePositions)
          /\ Len(fl.coding_miRNA_tokens) = Len(EligiblePositions)
          /\ \A k \in 1..Len(EligiblePositions) :
                LET g == data.ensembl_id[EligiblePositions[k]]
                IN  /\ fl.norm_factor_vector[k] = gene_median_file.dict[g]
                    /\ fl.coding_miRNA_tokens[k] = token_dictionary_file.dict[g]
          /\ \A j \in 1..Len(data.ensembl_id) :
                data.ensembl_id[j] \notin DOMAIN gene_median_file.dict =>
                    \A r \in 1..Len(fl.tokenized_cells) :
                        TokenTable[data.ensembl_id[j]] \notin
                            Range(fl.tokenized_cells[r])

\* g2 has no factor and no token; the cell expresses all three genes
C8_Witness ==
    /\ pc = "files_merge"
    /\ DOMAIN gene_median_file.dict = {"g1", "g3"}
    /\ DOMAIN token_dictionary_file.dict = {"g1", "g3"}
    /\ data.X = <<<<1, 2, 1>>>>
    /\ data.n_counts = <<2>>
    /\ fl.tokenized_cells = <<<<5, 4>>>>

\* C9: save_to_disk runs at most once, and only after both tables were loaded,
\* every included cell was read and tokenized and create_dataset built the
\* truncated table; once a step has raised, nothing is ever saved.
C9_SaveOnlyAfterSuccess ==
    /\ Len(disk) <= 1
    /\ err # "none" => disk = <<>>
    /\ disk # <<>> =>
          /\ pc = "done"
          /\ gene_median_file.readable /\ token_dictionary_file.readable
          /\ self.gene_median_dict = gene_median_file.dict
          /\ self.gene_token_dict = token_dictionary_file.dict
          /\ emitted = IncludedCells
          /\ dataset.built
          /\ disk[1] = dataset
          /\ \A r \in 1..Len(dataset.input_ids) :
                /\ Len(dataset.input_ids[r]) <= MaxLen
                /\ dataset.length[r] = Len(dataset.input_ids[r])

\* a chunk read fails after an earlier chunk was tokenized: nothing is saved
C9_Witness ==
    /\ pc = "raised"
    /\ err = "OSError"
    /\ Len(emitted) >= 1
    /\ Len(emitted) < Len(IncludedCells)
    /\ disk = <<>>

\* C10: with no included cell the file function returns normally, with an
\* empty list of token sequences and a defined metadata value.
C10_EmptyInclusionReturns ==
    IncludedCells = <<>> => err # "UnboundLocalError"

====
